---- MODULE Spec2Model ----
(***************************************************************************)
(* A model of huduma_watch.py: the probe loop (check_services), the        *)
(* three-state classifier, the bounded per-service history deques, the     *)
(* edge-triggered alert, the Prometheus gauges and the JSON state file.    *)
(*                                                                         *)
(* Python's Optional[int] is modelled as a sequence of length 0 or 1:      *)
(* None is << >> and the integer v is <<v>>.                               *)
(***************************************************************************)
EXTENDS Integers, Sequences, FiniteSets, TLC

VARIABLES
    history,     \* dict name -> deque of <<timestamp, code, latency>>
    g_up,        \* gauge service_up: name -> None or <<0>> / <<1>>
    g_latency,   \* gauge service_latency_ms: name -> None or <<ms>>
    tw_api,      \* TRUE iff twitter_client() returned a client
    file,        \* STATE_FILE on disk
    now,         \* wall clock, the source of time.time()
    mainpc,      \* position of the main thread in __main__
    ck,          \* per thread: the locals of a running check_services()
    sv,          \* per thread: position inside save_history()
    call,        \* one call of a pure function: its arguments and result
    obs,         \* per endpoint: what the latest finished loop body did
    nApp,        \* per thread and endpoint: appends made by the current run
    disk,        \* history of the state file across a save and a restart
    runs,        \* how often check_services, save_history and restarts ran
    dash,        \* the locals of a running dashboard() request
    made         \* per name: the samples one probe or one file entry produced

vars == <<history, g_up, g_latency, tw_api, file, now, mainpc, ck, sv, call,
          obs, nApp, disk, runs, dash, made>>

-----------------------------------------------------------------------------
(* Configuration *)

\* The configured services, in dictionary order (two of the five).
SITES == <<"KRA iTax", "eCitizen">>

Sites == {SITES[i] : i \in 1..Len(SITES)}

\* A key of a state file that is no configured service.
UnknownName == "Huduma"

SLOW_THRESHOLD_MS == 4000

\* Capacity of each history deque (288 in the program, scaled down).
HISTORY_ENTRIES == 2

\* Executions of check_services, of save_history, and process restarts.
MaxTicks == 2
MaxSaves == 1
MaxRestarts == 1
MaxReads == 1

None == << >>

Some(v) == <<v>>

-----------------------------------------------------------------------------
(* Pure functions *)

classify_SlowAt(code, latency) ==
    IF code = None \/ latency = None THEN "DOWN"
    ELSE IF code[1] >= 500 \/ latency[1] >= SLOW_THRESHOLD_MS THEN "SLOW"
    ELSE "OK"

classify(code, latency) ==
    IF code = None \/ latency = None THEN "DOWN"
    ELSE IF code[1] >= 500 \/ latency[1] > SLOW_THRESHOLD_MS THEN "SLOW"
    ELSE "OK"

\* entries[-1] decoded: 0 stands for no code, -1 for no latency.
_last_status(entries) ==
    IF entries = << >> THEN <<None, None>>
    ELSE LET e == entries[Len(entries)]
         IN  << IF e[2] = 0 THEN None ELSE Some(e[2]),
                IF e[3] = -1 THEN None ELSE Some(e[3]) >>

\* Python's `x or d` for an Optional[int]: None and 0 are both falsy.
OrDefault(x, d) == IF x = None \/ x[1] = 0 THEN d ELSE x[1]

\* The tuple check_services stores for a probe result.
Sample(ts, code, latency) == <<ts, OrDefault(code, 0), OrDefault(latency, -1)>>

DequeAppend_NoEvict(dq, x) == Append(dq, x)

\* deque(maxlen=HISTORY_ENTRIES).append(x)
DequeAppend(dq, x) ==
    IF Len(dq) >= HISTORY_ENTRIES THEN Append(Tail(dq), x) ELSE Append(dq, x)

\* seq[-n:] for n > 0
LastN(seq, n) ==
    IF Len(seq) <= n THEN seq ELSE SubSeq(seq, Len(seq) - n + 1, Len(seq))

-----------------------------------------------------------------------------
(* The state file *)

\* A file is absent, or holds text that json.load rejects (ok = FALSE), or
\* holds a JSON object: its items in order, each <<name, list of entries>>.
MissingFile == [exists |-> FALSE, ok |-> FALSE, data |-> << >>]

\* What open(STATE_FILE, "w") leaves behind, and any partly written text.
TruncatedFile == [exists |-> TRUE, ok |-> FALSE, data |-> << >>]

JsonFile(items) == [exists |-> TRUE, ok |-> TRUE, data |-> items]

\* Iteration order of the history dict: the configured names, then any name
\* load_history added.
HistoryOrder(h) ==
    SITES \o (IF UnknownName \in DOMAIN h THEN <<UnknownName>> ELSE << >>)

\* json.dump({n: list(d) for n, d in history.items()})
ToJson(h) ==
    LET order == HistoryOrder(h)
    IN  [i \in 1..Len(order) |-> <<order[i], h[order[i]]>>]

\* The inner loop of load_history: append each entry to dq; an entry that does
\* not unpack into three values raises and ends the loop.
RECURSIVE LoadEntries(_, _)
LoadEntries(dq, entries) ==
    IF entries = << >> THEN [dq |-> dq, raised |-> FALSE]
    ELSE LET e == Head(entries)
         IN  IF Len(e) # 3 THEN [dq |-> dq, raised |-> TRUE]
             ELSE LoadEntries(DequeAppend(dq, <<e[1], e[2], e[3]>>), Tail(entries))

\* history with key name bound to dq (a new key when name is unknown).
SetKey(h, name, dq) ==
    [n \in DOMAIN h \cup {name} |-> IF n = name THEN dq ELSE h[n]]

RECURSIVE LoadItems_InPlace(_, _)
LoadItems_InPlace(h, items) ==
    IF items = << >> THEN h
    ELSE LET name == Head(items)[1]
             r    == LoadEntries(IF name \in DOMAIN h THEN h[name] ELSE << >>,
                                 LastN(Head(items)[2], HISTORY_ENTRIES))
         IN  IF r.raised
             THEN SetKey(h, name, r.dq)
             ELSE LoadItems_InPlace(SetKey(h, name, r.dq), Tail(items))

\* The outer loop of load_history. dq is the live deque of the name when that
\* deque is non-empty, a new deque otherwise; the new deque is stored only
\* after its entries were all appended.
RECURSIVE LoadItems(_, _)
LoadItems(h, items) ==
    IF items = << >> THEN h
    ELSE LET name == Head(items)[1]
             live == name \in DOMAIN h /\ h[name] # << >>
             r    == LoadEntries(IF live THEN h[name] ELSE << >>,
                                 LastN(Head(items)[2], HISTORY_ENTRIES))
         IN  IF r.raised
             THEN (IF live THEN SetKey(h, name, r.dq) ELSE h)
             ELSE LoadItems(SetKey(h, name, r.dq), Tail(items))

load_history_FirstN(h, f) ==
    IF ~f.exists \/ ~f.ok THEN h
    ELSE [n \in DOMAIN h |->
            IF \E i \in 1..Len(f.data) : f.data[i][1] = n
            THEN LET i == CHOOSE i \in 1..Len(f.data) : f.data[i][1] = n
                 IN  SubSeq(f.data[i][2], 1,
                            IF Len(f.data[i][2]) < HISTORY_ENTRIES
                            THEN Len(f.data[i][2]) ELSE HISTORY_ENTRIES)
            ELSE h[n]]

\* The history dict after load_history() on file f.
load_history(h, f) ==
    IF ~f.exists THEN h
    ELSE IF ~f.ok THEN h
    ELSE LoadItems(h, f.data)

\* TRUE iff load_history ends in its except branch on file f.
LoadRaises(h, f) ==
    /\ f.exists
    /\ \/ ~f.ok
       \/ \E i \in 1..Len(f.data) :
             \E j \in 1..Len(LastN(f.data[i][2], HISTORY_ENTRIES)) :
                Len(LastN(f.data[i][2], HISTORY_ENTRIES)[j]) # 3

-----------------------------------------------------------------------------
(* Threads and their initial values *)

\* check_services runs on the main thread (the direct call of __main__) and
\* on a scheduler thread (the interval job).
CheckThreads == {"main", "job"}

\* save_history runs on a scheduler thread (the interval job) and on the main
\* thread (KeyboardInterrupt).
SaveThreads == {"main", "saver"}

CkIdle == [pc |-> "idle", i |-> 0, prev_state |-> "", code |-> None,
           latency |-> None, state |-> "", failed |-> FALSE, seen |-> << >>]

NoObs == [ticked |-> FALSE, seen |-> << >>, code |-> None, latency |-> None,
          failed |-> FALSE, state |-> "", fired |-> FALSE, sink |-> "none",
          stored |-> << >>, prevTrue |-> "", prevSink |-> "none"]

NoDash == [pc |-> "idle", i |-> 0, name |-> "", len |-> 0, raw |-> << >>,
           code |-> None, latency |-> None, reads |-> 0]

\* The entries of each deque, as a set.
Whole(h) == [n \in DOMAIN h |-> {h[n][k] : k \in DOMAIN h[n]}]

NoCall == [fn |-> "", code |-> None, latency |-> None, ret |-> ""]

NoDisk == [boot |-> "none", fromSave |-> FALSE, saved |-> << >>,
           prior |-> MissingFile, cut |-> FALSE, mem |-> << >>,
           lastSave |-> "none", partial |-> FALSE]

\* The files a first start may find: none; text that is no JSON; a snapshot
\* longer than the capacity together with an unknown key; a snapshot whose
\* second item holds an entry of the wrong shape.
OldEntries(code, lat) ==
    [k \in 1..(HISTORY_ENTRIES + 2) |-> <<k - (HISTORY_ENTRIES + 2), code, lat>>]

InitFiles ==
    { MissingFile,
      TruncatedFile,
      JsonFile(<< <<SITES[1], OldEntries(200, 100)>>,
                  <<UnknownName, <<<<0, 200, 100>>>> >> >>),
      JsonFile(<< <<SITES[2], <<<<0, 503, 100>>>> >>,
                  <<SITES[1], << <<-1, 200, 100>>, <<0, 200>> >> >> >>) }

\* The memory of a process that has just started.
FreshMemory ==
    /\ history' = [n \in Sites |-> << >>]
    /\ g_up' = [n \in Sites |-> None]
    /\ g_latency' = [n \in Sites |-> None]
    /\ mainpc' = "boot"
    /\ ck' = [t \in CheckThreads |-> CkIdle]
    /\ sv' = [t \in SaveThreads |-> "idle"]
    /\ obs' = [n \in Sites |-> NoObs]
    /\ nApp' = [t \in CheckThreads |-> [n \in Sites |-> 0]]
    /\ dash' = NoDash
    /\ made' = [n \in Sites |-> {}]

InitMemory ==
    /\ history = [n \in Sites |-> << >>]
    /\ g_up = [n \in Sites |-> None]
    /\ g_latency = [n \in Sites |-> None]
    /\ mainpc = "boot"
    /\ ck = [t \in CheckThreads |-> CkIdle]
    /\ sv = [t \in SaveThreads |-> "idle"]
    /\ obs = [n \in Sites |-> NoObs]
    /\ nApp = [t \in CheckThreads |-> [n \in Sites |-> 0]]
    /\ dash = NoDash
    /\ made = [n \in Sites |-> {}]
    /\ now = 1
    /\ disk = NoDisk
    /\ runs = [ticks |-> 0, saves |-> 0, restarts |-> 0]

Init ==
    /\ InitMemory
    /\ tw_api \in BOOLEAN
    /\ file \in InitFiles
    /\ call = NoCall

-----------------------------------------------------------------------------
(* __main__ : load_history() at startup *)

LoadHistory ==
    /\ mainpc = "boot"
    /\ history' = load_history(history, file)
    /\ mainpc' = "check"
    /\ disk' = [disk EXCEPT
                  !.boot = IF ~file.exists THEN "missing"
                           ELSE IF LoadRaises(history, file) THEN "raised"
                           ELSE "restored"]
    /\ made' = Whole(history')
    /\ UNCHANGED <<dash, g_up, g_latency, tw_api, file, now, ck, sv, call, obs, nApp, runs>>

-----------------------------------------------------------------------------
(* check_services *)

\* What requests.get can do.
ProbeOutcomes ==
    { [kind |-> "response", code |-> 200, latency |-> 0],
      [kind |-> "response", code |-> 200, latency |-> 100],
      [kind |-> "response", code |-> 200, latency |-> 5000],
      [kind |-> "response", code |-> 500, latency |-> 0],
      [kind |-> "timeout", code |-> 0, latency |-> 0],
      [kind |-> "connection_error", code |-> 0, latency |-> 0],
      [kind |-> "malformed_response", code |-> 0, latency |-> 0] }

\* measure(url): any exception of requests.get becomes (None, None).
measure(o) ==
    IF o.kind = "response" THEN <<Some(o.code), Some(o.latency)>>
    ELSE <<None, None>>

Name(t) == SITES[ck[t].i]

\* A call of check_services begins: the direct call of __main__ after
\* load_history, or the interval job once the direct call has returned.
CheckStart(t) ==
    /\ ck[t].pc = "idle"
    /\ runs.ticks < MaxTicks
    /\ IF t = "main" THEN mainpc = "check" ELSE mainpc \in {"sleep", "shutdown"}
    /\ \A u \in CheckThreads : ck[u].pc = "idle"
    /\ ck' = [ck EXCEPT ![t] = [CkIdle EXCEPT !.pc = "read", !.i = 1]]
    /\ nApp' = [nApp EXCEPT ![t] = [n \in Sites |-> 0]]
    /\ runs' = [runs EXCEPT !.ticks = @ + 1]
    /\ UNCHANGED <<dash, made, history, g_up, g_latency, tw_api, file, now, mainpc, sv, call, obs, disk>>

\* Lines 118-119: the previous state, from the latest stored sample.
ReadPrev(t) ==
    /\ ck[t].pc = "read"
    /\ LET prev == _last_status(history[Name(t)])
       IN  ck' = [ck EXCEPT ![t].prev_state = classify(prev[1], prev[2]),
                            ![t].seen = history[Name(t)],
                            ![t].pc = "measure"]
    /\ UNCHANGED <<dash, made, history, g_up, g_latency, tw_api, file, now, mainpc, sv, call, obs, nApp, disk, runs>>

\* Lines 121-122: the probe and its classification, the outcome of
\* requests.get drawn from the set outcomes.
MeasureFrom(t, outcomes) ==
    /\ ck[t].pc = "measure"
    /\ \E o \in outcomes :
          LET r == measure(o)
          IN  ck' = [ck EXCEPT ![t].code = r[1],
                               ![t].latency = r[2],
                               ![t].failed = (o.kind # "response"),
                               ![t].state = classify(r[1], r[2]),
                               ![t].pc = "append"]
    /\ UNCHANGED <<dash, made, history, g_up, g_latency, tw_api, file, now, mainpc, sv, call, obs, nApp, disk, runs>>

Measure(t) == MeasureFrom(t, ProbeOutcomes)

\* An append that fills the new entry field by field in the deque: the code
\* is the probe's, the latency still the one of the entry before.
AppendSample_Torn(t) ==
    /\ ck[t].pc = "append"
    /\ LET x == Sample(now, ck[t].code, ck[t].latency)
       IN  /\ history' = [history EXCEPT
                            ![Name(t)] = DequeAppend(@,
                                IF @ = << >> THEN x
                                ELSE <<x[1], x[2], @[Len(@)][3]>>)]
           /\ made' = [made EXCEPT ![Name(t)] = @ \cup {x}]
    /\ now' = now + 1
    /\ nApp' = [nApp EXCEPT ![t][Name(t)] = @ + 1]
    /\ ck' = [ck EXCEPT ![t].pc = "export"]
    /\ UNCHANGED <<dash, g_up, g_latency, tw_api, file, mainpc, sv, call, obs, disk, runs>>

\* Line 124: history[name].append((time.time(), code or 0, latency or -1))
\* The tuple is built from the locals of this loop body, then appended in one
\* step of the interpreter.
AppendSample(t) ==
    /\ ck[t].pc = "append"
    /\ LET x == Sample(now, ck[t].code, ck[t].latency)
       IN  /\ history' = [history EXCEPT ![Name(t)] = DequeAppend(@, x)]
           /\ made' = [made EXCEPT ![Name(t)] = @ \cup {x}]
    /\ now' = now + 1
    /\ nApp' = [nApp EXCEPT ![t][Name(t)] = @ + 1]
    /\ ck' = [ck EXCEPT ![t].pc = "export"]
    /\ UNCHANGED <<dash, g_up, g_latency, tw_api, file, mainpc, sv, call, obs, disk, runs>>

Export_AllServices(t) ==
    /\ ck[t].pc = "export"
    /\ g_up' = [n \in Sites |-> Some(IF ck[t].state = "OK" THEN 1 ELSE 0)]
    /\ g_latency' = IF ck[t].latency # None
                    THEN [n \in Sites |-> ck[t].latency]
                    ELSE g_latency
    /\ ck' = [ck EXCEPT ![t].pc = "alert"]
    /\ UNCHANGED <<dash, made, history, tw_api, file, now, mainpc, sv, call, obs, nApp, disk, runs>>

\* Lines 126-128: the gauges.
Export(t) ==
    /\ ck[t].pc = "export"
    /\ g_up' = [g_up EXCEPT ![Name(t)] = Some(IF ck[t].state = "OK" THEN 1 ELSE 0)]
    /\ g_latency' = IF ck[t].latency # None
                    THEN [g_latency EXCEPT ![Name(t)] = ck[t].latency]
                    ELSE g_latency
    /\ ck' = [ck EXCEPT ![t].pc = "alert"]
    /\ UNCHANGED <<dash, made, history, tw_api, file, now, mainpc, sv, call, obs, nApp, disk, runs>>

ShouldAlert_EveryTick(state, prev_state) ==
    state \in {"DOWN", "SLOW"}

\* Line 130: the condition of the alert.
ShouldAlert(state, prev_state) ==
    state \in {"DOWN", "SLOW"} /\ state # prev_state

\* send_alert(message): nothing without a client; with one, update_status
\* succeeds or raises, and the exception is logged.
SinkOutcomes(fire) ==
    IF ~fire THEN {"none"}
    ELSE IF tw_api THEN {"sent", "failed"}
    ELSE {"disabled"}

LoopEnds_OnFailure(t) == ck[t].i = Len(SITES) \/ ck[t].failed

\* Line 117: the loop ends after the last configured service.
LoopEnds(t) == ck[t].i = Len(SITES)

\* Lines 130-131 and the end of the loop body: the alert, then the next
\* endpoint or the return of check_services.
Alert(t) ==
    /\ ck[t].pc = "alert"
    /\ LET fire == ShouldAlert(ck[t].state, ck[t].prev_state)
           last == LoopEnds(t)
       IN  /\ \E s \in SinkOutcomes(fire) :
                 obs' = [obs EXCEPT ![Name(t)] =
                           [ticked |-> TRUE, seen |-> ck[t].seen,
                            code |-> ck[t].code, latency |-> ck[t].latency,
                            failed |-> ck[t].failed, state |-> ck[t].state,
                            fired |-> fire, sink |-> s,
                            stored |-> history[Name(t)],
                            prevTrue |-> obs[Name(t)].state,
                            prevSink |-> obs[Name(t)].sink]]
           /\ ck' = [ck EXCEPT ![t] = IF last THEN CkIdle
                                      ELSE [CkIdle EXCEPT !.pc = "read", !.i = ck[t].i + 1]]
           /\ mainpc' = IF last /\ t = "main" THEN "sleep" ELSE mainpc
    /\ UNCHANGED <<dash, made, history, g_up, g_latency, tw_api, file, now, sv, call, nApp, disk, runs>>

-----------------------------------------------------------------------------
(* save_history *)

\* Line 150: open(STATE_FILE, "w") truncates the file, or raises. On the main
\* thread the call is the KeyboardInterrupt handler of __main__.
SaveOpen(t) ==
    /\ sv[t] = "idle"
    /\ runs.saves < MaxSaves
    /\ IF t = "main" THEN mainpc = "sleep" /\ runs.restarts < MaxRestarts
       ELSE mainpc \in {"check", "sleep", "shutdown"}
    /\ \E opened \in BOOLEAN :
          /\ file' = IF opened THEN TruncatedFile ELSE file
          /\ sv' = [sv EXCEPT ![t] = IF opened THEN "opened" ELSE "idle"]
          /\ mainpc' = IF t # "main" THEN mainpc
                       ELSE IF opened THEN "shutdown" ELSE "exit"
          /\ disk' = IF ~opened
                     THEN [disk EXCEPT !.lastSave = "open_failed"]
                     ELSE IF \A u \in SaveThreads : sv[u] = "idle"
                     THEN [disk EXCEPT !.prior = file, !.fromSave = FALSE]
                     ELSE disk
    /\ runs' = [runs EXCEPT !.saves = @ + 1]
    /\ UNCHANGED <<dash, made, history, g_up, g_latency, tw_api, now, ck, call, obs, nApp>>

\* TRUE iff a running check_services has appended the sample of this tick
\* for some endpoints and not yet for others.
MidTick ==
    \E t \in CheckThreads :
        \E n, m \in Sites : nApp[t][n] # nApp[t][m]

SaveDump_Drain(t) ==
    /\ sv[t] = "opened"
    /\ \E written \in BOOLEAN :
          /\ file' = IF written THEN JsonFile(ToJson(history)) ELSE TruncatedFile
          /\ history' = IF written THEN [n \in DOMAIN history |-> << >>] ELSE history
          /\ disk' = IF written
                     THEN [disk EXCEPT !.fromSave = TRUE, !.saved = history,
                                       !.lastSave = "none",
                                       !.partial = MidTick]
                     ELSE [disk EXCEPT !.fromSave = FALSE,
                                       !.lastSave = "write_failed"]
    /\ sv' = [sv EXCEPT ![t] = "idle"]
    /\ mainpc' = IF t = "main" THEN "exit" ELSE mainpc
    /\ UNCHANGED <<dash, made, g_up, g_latency, tw_api, now, ck, call, obs, nApp, runs>>

\* Line 151 and the end of the with block: the snapshot is written and the
\* file closed, or the write raises and leaves the text incomplete. Of two
\* saves that overlap, the one that closes last decides the content.
SaveDump(t) ==
    /\ sv[t] = "opened"
    /\ \E written \in BOOLEAN :
          /\ file' = IF written THEN JsonFile(ToJson(history)) ELSE TruncatedFile
          /\ disk' = IF written
                     THEN [disk EXCEPT !.fromSave = TRUE, !.saved = history,
                                       !.lastSave = "none",
                                       !.partial = MidTick]
                     ELSE [disk EXCEPT !.fromSave = FALSE,
                                       !.lastSave = "write_failed"]
    /\ sv' = [sv EXCEPT ![t] = "idle"]
    /\ mainpc' = IF t = "main" THEN "exit" ELSE mainpc
    /\ UNCHANGED <<dash, made, history, g_up, g_latency, tw_api, now, ck, call, obs, nApp, runs>>

-----------------------------------------------------------------------------
(* The process ends and is started again *)

\* The process is killed at any point; the file stays as it is.
Crash ==
    /\ mainpc # "exit"
    /\ runs.restarts < MaxRestarts
    /\ FreshMemory
    /\ disk' = [disk EXCEPT !.boot = "none",
                            !.cut = (\E t \in SaveThreads : sv[t] = "opened"),
                            !.mem = history,
                            !.lastSave = "none"]
    /\ runs' = [runs EXCEPT !.restarts = @ + 1]
    /\ UNCHANGED <<tw_api, file, now, call>>

\* A new process after "Shutting down".
Restart ==
    /\ mainpc = "exit"
    /\ FreshMemory
    /\ disk' = [disk EXCEPT !.boot = "none", !.cut = FALSE, !.mem = history,
                            !.lastSave = "none"]
    /\ runs' = [runs EXCEPT !.restarts = @ + 1]
    /\ UNCHANGED <<tw_api, file, now, call>>

-----------------------------------------------------------------------------
(* The program *)

Next ==
    \/ LoadHistory
    \/ \E t \in CheckThreads : CheckStart(t)
    \/ \E t \in CheckThreads : ReadPrev(t)
    \/ \E t \in CheckThreads : Measure(t)
    \/ \E t \in CheckThreads : AppendSample(t)
    \/ \E t \in CheckThreads : Export(t)
    \/ \E t \in CheckThreads : Alert(t)

\* The monitoring engine of one process: startup, then one check_services
\* after the other.
Spec == Init /\ [][Next]_vars

\* The probe outcomes of the persistence runs: one response and one failure.
FewOutcomes ==
    { [kind |-> "response", code |-> 200, latency |-> 100],
      [kind |-> "timeout", code |-> 0, latency |-> 0] }

MeasureFew(t) == MeasureFrom(t, FewOutcomes)

InitPersist ==
    /\ InitMemory
    /\ tw_api = FALSE
    /\ file \in InitFiles
    /\ call = NoCall

NextPersist ==
    \/ LoadHistory
    \/ \E t \in CheckThreads : CheckStart(t)
    \/ \E t \in CheckThreads : ReadPrev(t)
    \/ \E t \in CheckThreads : MeasureFew(t)
    \/ \E t \in CheckThreads : AppendSample(t)
    \/ \E t \in CheckThreads : Export(t)
    \/ \E t \in CheckThreads : Alert(t)
    \/ \E t \in SaveThreads : SaveOpen(t)
    \/ \E t \in SaveThreads : SaveDump(t)
    \/ Crash
    \/ Restart

\* The engine together with the persistence job, kills and restarts.
SpecPersist == InitPersist /\ [][NextPersist]_vars

(* dashboard: one request of the status page *)

\* The dashboard thread is started once the direct call of check_services
\* has returned; a request walks history.items().
DashStart ==
    /\ dash.pc = "idle"
    /\ dash.reads < MaxReads
    /\ mainpc \in {"sleep", "shutdown"}
    /\ dash' = [NoDash EXCEPT !.pc = "test", !.i = 1, !.reads = dash.reads]
    /\ UNCHANGED <<made, history, g_up, g_latency, tw_api, file, now, mainpc, ck, sv,
                   call, obs, nApp, disk, runs>>

\* After a row: the next item of history.items(), or the page is rendered.
DashNext(row) ==
    IF dash.i = Len(HistoryOrder(history))
    THEN [row EXCEPT !.pc = "idle", !.reads = @ + 1]
    ELSE [row EXCEPT !.pc = "test", !.i = @ + 1]

\* _last_status, line 92-93: `if not entries: return None, None`.
DashTest ==
    /\ dash.pc = "test"
    /\ LET n == HistoryOrder(history)[dash.i]
           row == [dash EXCEPT !.name = n, !.len = Len(history[n]), !.raw = << >>,
                               !.code = None, !.latency = None]
       IN  dash' = IF history[n] = << >> THEN DashNext(row)
                   ELSE [row EXCEPT !.pc = "fetch"]
    /\ UNCHANGED <<made, history, g_up, g_latency, tw_api, file, now, mainpc, ck, sv,
                   call, obs, nApp, disk, runs>>

\* _last_status, line 94-95: entries[-1] is fetched in one step and decoded.
DashFetch ==
    /\ dash.pc = "fetch"
    /\ LET n == dash.name
           got == _last_status(history[n])
       IN  dash' = DashNext([dash EXCEPT !.raw = history[n][Len(history[n])],
                                         !.code = got[1], !.latency = got[2]])
    /\ UNCHANGED <<made, history, g_up, g_latency, tw_api, file, now, mainpc, ck, sv,
                   call, obs, nApp, disk, runs>>

NextRead ==
    \/ LoadHistory
    \/ \E t \in CheckThreads : CheckStart(t)
    \/ \E t \in CheckThreads : ReadPrev(t)
    \/ \E t \in CheckThreads : MeasureFew(t)
    \/ \E t \in CheckThreads : AppendSample(t)
    \/ \E t \in CheckThreads : Export(t)
    \/ \E t \in CheckThreads : Alert(t)
    \/ DashStart
    \/ DashTest
    \/ DashFetch

\* The engine with a status page request running beside the interval job.
SpecRead == InitPersist /\ [][NextRead]_vars

-----------------------------------------------------------------------------
\* A call of check_services begins while another may still run: the interval
\* job is started by the scheduler, which runs from before the direct call
\* of __main__; the job itself is never started twice at once.
CheckStartOverlap(t) ==
    /\ ck[t].pc = "idle"
    /\ runs.ticks < MaxTicks
    /\ IF t = "main" THEN mainpc = "check"
       ELSE mainpc \in {"check", "sleep", "shutdown"}
    /\ ck' = [ck EXCEPT ![t] = [CkIdle EXCEPT !.pc = "read", !.i = 1]]
    /\ nApp' = [nApp EXCEPT ![t] = [n \in Sites |-> 0]]
    /\ runs' = [runs EXCEPT !.ticks = @ + 1]
    /\ UNCHANGED <<dash, made, history, g_up, g_latency, tw_api, file, now, mainpc, sv, call, obs, disk>>

NextOverlap ==
    \/ LoadHistory
    \/ \E t \in CheckThreads : CheckStartOverlap(t)
    \/ \E t \in CheckThreads : ReadPrev(t)
    \/ \E t \in CheckThreads : MeasureFew(t)
    \/ \E t \in CheckThreads : AppendSample(t)
    \/ \E t \in CheckThreads : Export(t)
    \/ \E t \in CheckThreads : Alert(t)

\* The engine with the direct call and the interval job free to overlap.
SpecOverlap == Init /\ [][NextOverlap]_vars

-----------------------------------------------------------------------------
(* classify on its own: every argument pair, one call each *)

Codes == {None} \cup {Some(c) : c \in {-1, 0, 200, 404, 499, 500, 503}}

Latencies == {None} \cup {Some(l) : l \in {0, 1, 3999, 4000, 4001, 5000, 60000}}

InitClassify ==
    /\ InitMemory
    /\ tw_api = FALSE
    /\ file = MissingFile
    /\ call \in [fn : {"classify"}, code : Codes, latency : Latencies, ret : {""}]

CallClassify ==
    /\ call.fn = "classify"
    /\ call.ret = ""
    /\ call' = [call EXCEPT !.ret = classify(call.code, call.latency)]
    /\ UNCHANGED <<dash, made, history, g_up, g_latency, tw_api, file, now, mainpc, ck, sv,
                   obs, nApp, disk, runs>>

NextClassify == CallClassify

SpecClassify == InitClassify /\ [][NextClassify]_vars

-----------------------------------------------------------------------------
(* Claims *)

\* The classification of a stored sample <<ts, code, latency>>, written out:
\* 0 is the stored form of no code, -1 of no latency.
StoredClass(e) ==
    IF e[2] = 0 \/ e[3] = -1 THEN "DOWN"
    ELSE IF e[2] >= 500 \/ e[3] > 4000 THEN "SLOW"
    ELSE "OK"

\* C1: classify returns DOWN iff the code or the latency is absent, SLOW iff
\* both are present and (code >= 500 or latency > 4000), OK in every other
\* case; (499, 4000) is OK.
C1_ClassifyTable ==
    call.ret # "" =>
        LET c == call.code
            l == call.latency
            absent == c = None \/ l = None
            slow == ~absent /\ (c[1] >= 500 \/ l[1] > 4000)
        IN  /\ call.ret \in {"DOWN", "SLOW", "OK"}
            /\ (call.ret = "DOWN") <=> absent
            /\ (call.ret = "SLOW") <=> slow
            /\ (call.ret = "OK") <=> (~absent /\ ~slow)

C1_Witness ==
    /\ call.code = Some(499)
    /\ call.latency = Some(4000)
    /\ call.ret = "OK"

\* C2: every history holds at most HISTORY_ENTRIES samples, and the append of
\* check_services puts the new sample last, keeps the order of the others and
\* drops exactly the oldest one when the history was full.
C2_Bounded == \A n \in DOMAIN history : Len(history[n]) <= HISTORY_ENTRIES

C2_FifoStep ==
    \A t \in CheckThreads :
        (ck[t].pc = "append" /\ ck'[t].pc = "export") =>
            LET n   == Name(t)
                old == history[n]
                new == history'[n]
                kept == IF Len(old) = HISTORY_ENTRIES THEN Tail(old) ELSE old
            IN  /\ Len(new) = Len(kept) + 1
                /\ \A i \in 1..Len(kept) : new[i] = kept[i]
                /\ new[Len(new)][1] = now
                /\ \A m \in DOMAIN history \ {n} : history'[m] = history[m]

\* C2: after every step each history is within its capacity, and every
\* append step is first-in first-out.
C2_BoundedFifo == [][C2_Bounded' /\ C2_FifoStep]_vars

C2_Witness ==
    \E n \in Sites :
        /\ obs[n].ticked
        /\ Len(obs[n].seen) = HISTORY_ENTRIES
        /\ Len(obs[n].stored) = HISTORY_ENTRIES
        /\ obs[n].stored[1] = obs[n].seen[2]

\* C3: in a loop body that found a stored sample, the alert is sent iff the
\* new state is SLOW or DOWN and differs from the state of that sample; a
\* new state of OK never sends one.
C3_AlertIffTransition ==
    \A n \in Sites :
        obs[n].ticked =>
            /\ obs[n].state = (IF obs[n].code = None \/ obs[n].latency = None
                               THEN "DOWN"
                               ELSE IF obs[n].code[1] >= 500 \/ obs[n].latency[1] > 4000
                               THEN "SLOW" ELSE "OK")
            /\ obs[n].state = "OK" => ~obs[n].fired
            /\ obs[n].seen # << >> =>
                  (obs[n].fired <=>
                      /\ obs[n].state \in {"SLOW", "DOWN"}
                      /\ obs[n].state # StoredClass(obs[n].seen[Len(obs[n].seen)]))

C3_Witness ==
    \E n \in Sites :
        /\ obs[n].ticked
        /\ obs[n].seen # << >>
        /\ StoredClass(obs[n].seen[Len(obs[n].seen)]) = "OK"
        /\ obs[n].state = "DOWN"
        /\ obs[n].fired

\* C4: over successive ticks of an endpoint the alert is sent exactly on the
\* first tick of each run of one non-OK state: on a tick that follows
\* another, iff the new state is non-OK and differs from the state of the
\* tick before; never on a tick whose state is OK.
C4_OncePerRun ==
    \A n \in Sites :
        obs[n].ticked =>
            /\ obs[n].state = "OK" => ~obs[n].fired
            /\ obs[n].prevTrue # "" =>
                  (obs[n].fired <=>
                      /\ obs[n].state \in {"SLOW", "DOWN"}
                      /\ obs[n].state # obs[n].prevTrue)

\* C5: no alert is sent by a loop body that found the history empty.
C5_FirstTickSilent ==
    \A n \in Sites : (obs[n].ticked /\ obs[n].seen = << >>) => ~obs[n].fired

\* The entries a state file holds for a name (none when it has no such key).
FileEntries(f, n) ==
    IF \E i \in 1..Len(f.data) : f.data[i][1] = n
    THEN f.data[CHOOSE i \in 1..Len(f.data) : f.data[i][1] = n][2]
    ELSE << >>

\* A file that holds a JSON object whose entries are all triples.
WellFormed(f) ==
    /\ f.exists
    /\ f.ok
    /\ \A i \in 1..Len(f.data) :
          \A j \in 1..Len(f.data[i][2]) : Len(f.data[i][2][j]) = 3

\* The step of load_history in a process that has just started.
LoadStep == mainpc = "boot" /\ mainpc' = "check"

\* C6: load_history in a fresh process restores, for every configured
\* endpoint, the sequence of triples that the completed save_history wrote
\* from memory; of a well-formed file it loads exactly the last
\* HISTORY_ENTRIES triples of each endpoint, in order.
C6_RoundTrip ==
    [][LoadStep =>
          /\ disk.fromSave => \A n \in Sites : history'[n] = disk.saved[n]
          /\ WellFormed(file) =>
                \A n \in Sites :
                    history'[n] = LastN(FileEntries(file, n), HISTORY_ENTRIES)]_vars

C6_Witness ==
    /\ mainpc = "check"
    /\ ck["main"].pc = "idle"
    /\ runs.restarts > 0
    /\ disk.boot = "restored"
    /\ disk.fromSave
    /\ \E n \in Sites : Len(history[n]) = HISTORY_ENTRIES /\ history[n][1][1] > 0
    /\ \A n \in Sites : history[n] = disk.saved[n]

\* C7: when the process died inside save_history and the file held a
\* well-formed snapshot before that save began, the next startup restores
\* that snapshot or the histories the dying process held.
C7_CrashSafeSave ==
    (/\ mainpc = "check"
     /\ ck["main"].pc = "idle"
     /\ disk.cut
     /\ WellFormed(disk.prior))
    =>
        \/ \A n \in Sites :
              history[n] = LastN(FileEntries(disk.prior, n), HISTORY_ENTRIES)
        \/ \A n \in Sites : history[n] = disk.mem[n]

\* C8: when no check_services is running, the latency gauge of an endpoint
\* whose latest probe returned no latency is absent.
C8_LatencyGaugeAbsent ==
    (\A t \in CheckThreads : ck[t].pc = "idle") =>
        \A n \in Sites :
            (obs[n].ticked /\ obs[n].latency = None) => g_latency[n] = None

\* C9: a failed probe yields (None, None), is classified DOWN and stored as
\* one sample <<ts, 0, -1>>; a run of check_services appends at most one
\* sample per endpoint while it runs and exactly one per endpoint when it
\* has returned, whichever probes failed.
C9_ProbeFailureContained ==
    /\ \A n \in Sites :
          (obs[n].ticked /\ obs[n].failed) =>
              /\ obs[n].code = None
              /\ obs[n].latency = None
              /\ obs[n].state = "DOWN"
              /\ obs[n].stored # << >>
              /\ obs[n].stored[Len(obs[n].stored)][2] = 0
              /\ obs[n].stored[Len(obs[n].stored)][3] = -1
    /\ \A t \in CheckThreads :
          /\ \A n \in Sites : nApp[t][n] <= 1
          /\ ck[t].pc = "idle" =>
                \/ \A n \in Sites : nApp[t][n] = 1
                \/ \A n \in Sites : nApp[t][n] = 0
    /\ (\A t \in CheckThreads : ck[t].pc = "idle") =>
          now - 1 = runs.ticks * Len(SITES)

C9_Witness ==
    /\ \A t \in CheckThreads : ck[t].pc = "idle"
    /\ runs.ticks = 1
    /\ obs[SITES[1]].ticked
    /\ obs[SITES[1]].failed
    /\ obs[SITES[2]].ticked
    /\ ~obs[SITES[2]].failed
    /\ \A n \in Sites : nApp["main"][n] = 1

\* C10: a failed delivery leaves the sample of that tick in the history and
\* does not stop the run; after a tick whose delivery failed, a tick with the
\* same state sends no alert.
C10_FailedDeliveryNotRetried ==
    /\ \A n \in Sites :
          (obs[n].ticked /\ obs[n].sink = "failed") =>
              /\ obs[n].stored # << >>
              /\ obs[n].stored[Len(obs[n].stored)] =
                    Sample(obs[n].stored[Len(obs[n].stored)][1],
                           obs[n].code, obs[n].latency)
    /\ \A t \in CheckThreads :
          ck[t].pc = "idle" =>
              \/ \A n \in Sites : nApp[t][n] = 1
              \/ \A n \in Sites : nApp[t][n] = 0
    /\ \A n \in Sites :
          (obs[n].ticked /\ obs[n].prevSink = "failed"
              /\ obs[n].state = obs[n].prevTrue) => ~obs[n].fired

\* A step of save_history: its open, or the end of its write.
SaveStepTaken ==
    \/ runs'.saves # runs.saves
    \/ \E t \in SaveThreads :
          sv[t] = "opened" /\ sv'[t] = "idle" /\ mainpc' # "boot"

\* The step in which save_history fails on thread t.
SaveFails(t) ==
    \/ /\ runs'.saves # runs.saves
       /\ sv' = sv
       /\ IF t = "main" THEN mainpc' = "exit" /\ mainpc = "sleep"
          ELSE mainpc' = mainpc
    \/ /\ sv[t] = "opened"
       /\ sv'[t] = "idle"
       /\ mainpc' # "boot"
       /\ file' = TruncatedFile

\* C11: no step of save_history, successful or failed, changes a history,
\* a gauge or a running check_services; a failed save on the scheduler
\* thread returns, leaving that thread idle for the next interval and the
\* main thread where it was.
C11_SaveLeavesMemory ==
    [][SaveStepTaken =>
          /\ history' = history
          /\ g_up' = g_up
          /\ g_latency' = g_latency
          /\ ck' = ck
          /\ nApp' = nApp
          /\ SaveFails("saver") =>
                (sv'["saver"] = "idle" /\ mainpc' = mainpc)]_vars

C11_Witness ==
    /\ disk.lastSave = "write_failed"
    /\ runs.restarts = 0
    /\ sv["saver"] = "idle"
    /\ \A n \in Sites : history[n] # << >>
    /\ \E t \in CheckThreads : ck[t].pc = "append"

\* C12: in every reachable state the names that have a history are exactly
\* the configured services.
C12_OnlyConfigured == DOMAIN history = Sites

\* C14: the stored form of a probe result decodes to the same code and
\* latency, so the state derived from the latest stored sample is the state
\* computed on the tick that stored it.
C14_LosslessEncoding ==
    \A n \in Sites :
        obs[n].ticked =>
            LET d == _last_status(obs[n].stored)
            IN  /\ d = <<obs[n].code, obs[n].latency>>
                /\ classify(d[1], d[2]) = obs[n].state

\* C15: the snapshot a completed save_history wrote was not taken while a
\* check_services had stored the sample of its tick for some endpoints only.
C15_WholeTickSnapshots == disk.fromSave => ~disk.partial

\* The alert a loop body must send, from the history it found and its own
\* probe result alone.
AlertFor(seen, code, latency) ==
    LET new == IF code = None \/ latency = None THEN "DOWN"
               ELSE IF code[1] >= 500 \/ latency[1] > 4000 THEN "SLOW"
               ELSE "OK"
        old == IF seen = << >> THEN "DOWN" ELSE StoredClass(seen[Len(seen)])
    IN  new \in {"SLOW", "DOWN"} /\ new # old

\* C16: a step of the loop body of endpoint A leaves the history, the gauges
\* and the record of every other endpoint unchanged, and whether A's body
\* sent an alert is a function of the history of A it read and of A's probe
\* result.
C16_Frame ==
    \A t \in CheckThreads :
        (ck[t].pc # "idle" /\ ck'[t] # ck[t] /\ mainpc' # "boot") =>
            /\ \A m \in DOMAIN history \ {Name(t)} : history'[m] = history[m]
            /\ \A m \in Sites \ {Name(t)} :
                  /\ g_up'[m] = g_up[m]
                  /\ g_latency'[m] = g_latency[m]
                  /\ obs'[m] = obs[m]

C16_OwnInputs ==
    \A n \in Sites :
        obs[n].ticked =>
            (obs[n].fired <=> AlertFor(obs[n].seen, obs[n].code, obs[n].latency))

\* C16: the frame of every loop-body step, and the alert as a function of
\* the endpoint's own inputs.
C16_NoInterference == [][C16_Frame /\ C16_OwnInputs']_vars

C16_Witness ==
    /\ \A t \in CheckThreads : ck[t].pc = "idle"
    /\ obs[SITES[1]].ticked
    /\ obs[SITES[2]].ticked
    /\ obs[SITES[1]].fired
    /\ ~obs[SITES[2]].fired
    /\ g_up[SITES[1]] = Some(0)
    /\ g_up[SITES[2]] = Some(1)
    /\ g_latency[SITES[1]] = None

\* A loop-body step of the run on thread t for endpoint n.
BodyStep(t, n) ==
    /\ ck[t].pc # "idle"
    /\ Name(t) = n
    /\ \/ ReadPrev(t)
       \/ Measure(t)
       \/ AppendSample(t)
       \/ Export(t)
       \/ Alert(t)

\* C17: while the probe of an endpoint is in flight, a loop-body step of the
\* next endpoint of the same run is enabled.
C17_ProbeDoesNotBlock ==
    \A t \in CheckThreads :
        (ck[t].pc = "measure" /\ ck[t].i < Len(SITES)) =>
            ENABLED BodyStep(t, SITES[ck[t].i + 1])

\* C18: every step of a starting process is a load_history that returns and
\* hands over to the first check_services, with each configured history
\* either empty or the last HISTORY_ENTRIES entries the file holds for it;
\* without a file every history is empty.
C18_LoadAllOrNothing ==
    [][mainpc = "boot" =>
          /\ mainpc' = "check"
          /\ disk'.boot \in {"missing", "raised", "restored"}
          /\ \A n \in Sites :
                \/ history'[n] = << >>
                \/ history'[n] = LastN(FileEntries(file, n), HISTORY_ENTRIES)
          /\ ~file.exists => \A n \in DOMAIN history' : history'[n] = << >>]_vars

C18_Witness ==
    /\ mainpc = "check"
    /\ ck["main"].pc = "idle"
    /\ disk.boot = "raised"
    /\ file.ok
    /\ history[SITES[2]] # << >>
    /\ history[SITES[1]] = << >>

\* C19: when no check_services is running, service_up of an endpoint is 1
\* iff the state the status page derives from its latest stored sample is OK.
C19_GaugeMatchesPage ==
    (\A t \in CheckThreads : ck[t].pc = "idle") =>
        \A n \in Sites :
            obs[n].ticked =>
                LET d == _last_status(history[n])
                IN  (g_up[n] = Some(1)) <=> (classify(d[1], d[2]) = "OK")

\* C20: no loop body sends an alert for an endpoint when the body of another
\* run has already sent one for the same new state after reading the same
\* latest stored sample.
C20_NoDoubleAlert ==
    [][\A t \in CheckThreads :
          (/\ ck[t].pc = "alert"
           /\ ck'[t] # ck[t]
           /\ ck[t].seen # << >>
           /\ ShouldAlert(ck[t].state, ck[t].prev_state))
          =>
             ~(/\ obs[Name(t)].ticked
               /\ obs[Name(t)].fired
               /\ obs[Name(t)].seen = ck[t].seen
               /\ obs[Name(t)].state = ck[t].state)]_vars

\* C13: the (code, latency) pair a status page request reads for an endpoint
\* is the decoded form of one single sample, built by one probe or restored
\* from one file entry; a request that found the deque empty reads no code
\* and no latency.
C13_NoTornRead ==
    (dash.name # "" /\ dash.pc # "fetch") =>
        IF dash.raw = << >>
        THEN dash.len = 0 /\ dash.code = None /\ dash.latency = None
        ELSE /\ dash.raw \in made[dash.name]
             /\ <<dash.code, dash.latency>> = _last_status(<<dash.raw>>)

\* A request tested the deque before the running interval job appended to it
\* and fetched the job's sample before the job's loop body was over.
C13_Witness ==
    /\ dash.name = SITES[1]
    /\ dash.pc # "fetch"
    /\ dash.raw # << >>
    /\ ck["job"].pc \in {"export", "alert"}
    /\ ck["job"].i = 1
    /\ nApp["job"][SITES[1]] = 1
    /\ dash.len = Len(history[SITES[1]]) - 1
    /\ dash.raw = history[SITES[1]][Len(history[SITES[1]])]
    /\ dash.raw = Sample(dash.raw[1], ck["job"].code, ck["job"].latency)

====
